---- MODULE Spec2Model ----
(***************************************************************************)
(* The upscale session controller of the frontend: the useUpscaler hook.   *)
(* One controller instance holds four pieces of React state (status,       *)
(* error, progress, result) and one ref (abortControllerRef).  Every       *)
(* upscale() call starts an async closure ("request") that awaits the      *)
(* fetch() response and then each chunk of the streamed body.              *)
(*                                                                         *)
(* Execution is the browser's event loop: an API call (upscale, cancel,    *)
(* reset) runs to its first await without interruption; a promise          *)
(* rejected by AbortController.abort() resumes its closure in a microtask, *)
(* that is, before any network callback (a macrotask) can run; network     *)
(* callbacks run one at a time.                                            *)
(***************************************************************************)
EXTENDS Integers, Sequences, FiniteSets, TLC

\* Number of upscale() calls made on the controller instance.
MaxRequests == 3

\* Lines in a body of SpecStream, and bytes in one of its chunks.
MaxBodyLines == 3
MaxChunkBytes == 2

\* 'progress' events in a body of SpecOrdered.
MaxProgressEvents == 1

VARIABLES
    status,             \* useState<ProcessingStatus>('idle')
    error,              \* useState<string | undefined>()
    progress,           \* useState<UpscaleProgress | null>(null)
    result,             \* useState<UpscaleResult | null>(null)
    abortControllerRef, \* useRef<AbortController | null>(null): 0 is null, r is request r's controller
    reqs,               \* the async closure of each upscale() call and its AbortController
    nextReq,            \* the number the next upscale() call gets
    cancelled,          \* history: cancel() or reset() was called after the last upscale()
    sent,               \* history: the bytes each request's stream has delivered, recorded
                        \* by the specifications that choose the server's body (not by Spec)
    health,             \* the checkHealth() call of the page and how its promise settled
    image               \* the page's useState<ImageData | null>(null): is an image selected,
                        \* and is a picked file still loading in the viewer

vars == <<status, error, progress, result, abortControllerRef, reqs, nextReq, cancelled, sent,
          health, image>>

ReqIds == 1..MaxRequests

----------------------------------------------------------------------------
(* Values *)

Undefined == "undefined"
Null == <<>>
Some(x) == <<x>>

\* The characters of the response body.  "D" stands for the six characters
\* 'data: ', an opening token for the JSON text of one event up to its
\* closing brace, "}" for that brace.  Each of them is ASCII: one byte per
\* character, the byte written like the character.
NL == "\n"

\* The two bytes of the UTF-8 encoding of one non-ASCII character, that
\* character, and the replacement character a decoder emits for a byte
\* sequence that is not UTF-8.
LeadByte == "C3"
ContinuationByte == "A9"
EAcute == "U+00E9"
Replacement == "U+FFFD"

\* decoder.decode(value, { stream: true }): the text of the bytes, given the
\* bytes the decoder holds back from the chunks before; a lead byte at the
\* end of a chunk is held back for the next one.
RECURSIVE DecodeFrom(_, _, _)
DecodeFrom(held, bytes, text) ==
    IF bytes = <<>> THEN [text |-> text, pending |-> held]
    ELSE LET b == Head(bytes)
         IN  IF held # <<>>
             THEN IF b = ContinuationByte
                  THEN DecodeFrom(<<>>, Tail(bytes), Append(text, EAcute))
                  ELSE DecodeFrom(<<>>, bytes, Append(text, Replacement))
             ELSE IF b = LeadByte THEN DecodeFrom(<<b>>, Tail(bytes), text)
             ELSE IF b = ContinuationByte
                  THEN DecodeFrom(<<>>, Tail(bytes), Append(text, Replacement))
             ELSE DecodeFrom(<<>>, Tail(bytes), Append(text, b))

Decode(held, bytes) == DecodeFrom(held, bytes, <<>>)

\* A progress event whose message holds the non-ASCII character: its JSON
\* text up to the middle of the message string, and from the end of the
\* message to the closing brace.
MessageOpen == "{progressM"
MessageClose == "\"}"

\* The message string of that event, given its characters after MessageOpen.
MessageText(chars) ==
    CASE chars = <<>>                         -> "D-bruitage"
      [] chars = <<EAcute>>                   -> "D-(U+00E9)-bruitage"
      [] chars = <<Replacement>>              -> "D-(U+FFFD)-bruitage"
      [] chars = <<Replacement, Replacement>> -> "D-(U+FFFD)(U+FFFD)-bruitage"
      [] OTHER                                -> "D-(other text)-bruitage"

OpenTokens == {"{start", "{progressA", "{progressB", "{fallback", "{complete", "{error"}

\* The object JSON.parse returns for a complete event text.
Payload(open) ==
    CASE open = "{start"     -> [type |-> "start", step |-> 7, total |-> 20, percent |-> 35,
                                 preview |-> "P0", message |-> "Starting"]
      [] open = "{progressA" -> [type |-> "progress", step |-> 1, total |-> 10, percent |-> 10,
                                 preview |-> "P1", message |-> "Denoising"]
      [] open = "{progressB" -> [type |-> "progress", step |-> 5, total |-> 10, percent |-> 50,
                                 preview |-> Undefined, message |-> Undefined]
      [] open = "{fallback"  -> [type |-> "fallback", reason |-> "Model not loaded",
                                 step |-> 2, total |-> 5, percent |-> 40,
                                 preview |-> "PF", message |-> "Model not loaded"]
      [] open = "{complete"  -> [type |-> "complete", image |-> "AAA",
                                 original_size |-> <<100, 100>>,
                                 upscaled_size |-> <<200, 200>>, method |-> "ml"]
      [] open = "{error"     -> [type |-> "error", error |-> "Out of memory"]

\* JSON.parse(text): ok = FALSE is a SyntaxError.
JSONparse(text) ==
    IF Len(text) = 2 /\ text[1] \in OpenTokens /\ text[2] = "}"
    THEN [ok |-> TRUE, data |-> Payload(text[1])]
    ELSE IF /\ Len(text) >= 2 /\ text[1] = MessageOpen /\ text[Len(text)] = MessageClose
            /\ \A i \in 2..(Len(text) - 1) : text[i] \in {EAcute, Replacement}
    THEN [ok |-> TRUE,
          data |-> [type |-> "progress", step |-> 2, total |-> 10, percent |-> 20,
                    preview |-> Undefined,
                    message |-> MessageText(SubSeq(text, 2, Len(text) - 1))]]
    ELSE [ok |-> FALSE]

\* line.startsWith('data: ')
StartsWithData(line) == Len(line) >= 1 /\ line[1] = "D"

\* line.slice(6)
Slice6(line) == SubSeq(line, 2, Len(line))

----------------------------------------------------------------------------
(* The read loop's line handling *)

\* Index of the first newline of s, 0 if there is none.
RECURSIVE IndexOfNL(_, _)
IndexOfNL(s, i) ==
    IF i > Len(s) THEN 0
    ELSE IF s[i] = NL THEN i
    ELSE IndexOfNL(s, i + 1)

\* buffer.split('\n'): the segments between newlines, the last one being
\* the text after the last newline.
RECURSIVE Split(_)
Split(s) ==
    LET i == IndexOfNL(s, 1)
    IN  IF i = 0 THEN <<s>>
        ELSE <<SubSeq(s, 1, i - 1)>> \o Split(SubSeq(s, i + 1, Len(s)))

\* The session as the read loop sees it while it handles the lines of one
\* chunk: the four pieces of React state, the exception thrown (if any) and
\* the first terminal event this stream delivered.
Session(st, er, pr, re, term) ==
    [status |-> st, error |-> er, progress |-> pr, result |-> re,
     thrown |-> Null, terminal |-> term]

\* The switch as it would be if a 'progress' event were merged into the
\* progress already there, keeping the preview and message it does not carry.
HandleEventCarriesOver(data, s) ==
    CASE data.type = "start" ->
            [s EXCEPT !.progress = Some([step |-> 0, total |-> 100, percent |-> 0,
                                         preview |-> Undefined, message |-> Undefined])]
      [] data.type = "progress" ->
            [s EXCEPT !.progress =
                Some([step |-> data.step, total |-> data.total,
                      percent |-> data.percent,
                      preview |-> IF data.preview = Undefined /\ s.progress # Null
                                  THEN s.progress[1].preview ELSE data.preview,
                      message |-> IF data.message = Undefined /\ s.progress # Null
                                  THEN s.progress[1].message ELSE data.message])]
      [] data.type = "fallback" ->
            [s EXCEPT !.progress = Some([step |-> 1, total |-> 3, percent |-> 33,
                                         preview |-> Undefined,
                                         message |-> "Using Lanczos fallback..."])]
      [] data.type = "complete" ->
            [s EXCEPT !.result = Some([image |-> data.image,
                                       originalSize |-> data.original_size,
                                       upscaledSize |-> data.upscaled_size,
                                       method |-> data.method]),
                      !.progress = Null,
                      !.status = "complete",
                      !.terminal = IF @ = "none" THEN "complete" ELSE @]
      [] data.type = "error" ->
            [s EXCEPT !.thrown = Some(data.error),
                      !.terminal = IF @ = "none" THEN "error" ELSE @]
      [] OTHER -> s

\* The switch as it would be if an 'error' event were reported with a fixed
\* message instead of the event's.
HandleEventGenericError(data, s) ==
    CASE data.type = "start" ->
            [s EXCEPT !.progress = Some([step |-> 0, total |-> 100, percent |-> 0,
                                         preview |-> Undefined, message |-> Undefined])]
      [] data.type = "progress" ->
            [s EXCEPT !.progress = Some([step |-> data.step, total |-> data.total,
                                         percent |-> data.percent,
                                         preview |-> data.preview,
                                         message |-> data.message])]
      [] data.type = "fallback" ->
            [s EXCEPT !.progress = Some([step |-> 1, total |-> 3, percent |-> 33,
                                         preview |-> Undefined,
                                         message |-> "Using Lanczos fallback..."])]
      [] data.type = "complete" ->
            [s EXCEPT !.result = Some([image |-> data.image,
                                       originalSize |-> data.original_size,
                                       upscaledSize |-> data.upscaled_size,
                                       method |-> data.method]),
                      !.progress = Null,
                      !.status = "complete",
                      !.terminal = IF @ = "none" THEN "complete" ELSE @]
      [] data.type = "error" ->
            [s EXCEPT !.thrown = Some("Upscale failed"),
                      !.terminal = IF @ = "none" THEN "error" ELSE @]
      [] OTHER -> s

\* The switch as it would be if a 'start' event also set the status.
HandleEventStartSetsStatus(data, s) ==
    CASE data.type = "start" ->
            [s EXCEPT !.status = "processing",
                      !.progress = Some([step |-> 0, total |-> 100, percent |-> 0,
                                         preview |-> Undefined, message |-> Undefined])]
      [] data.type = "progress" ->
            [s EXCEPT !.progress = Some([step |-> data.step, total |-> data.total,
                                         percent |-> data.percent,
                                         preview |-> data.preview,
                                         message |-> data.message])]
      [] data.type = "fallback" ->
            [s EXCEPT !.progress = Some([step |-> 1, total |-> 3, percent |-> 33,
                                         preview |-> Undefined,
                                         message |-> "Using Lanczos fallback..."])]
      [] data.type = "complete" ->
            [s EXCEPT !.result = Some([image |-> data.image,
                                       originalSize |-> data.original_size,
                                       upscaledSize |-> data.upscaled_size,
                                       method |-> data.method]),
                      !.progress = Null,
                      !.status = "complete",
                      !.terminal = IF @ = "none" THEN "complete" ELSE @]
      [] data.type = "error" ->
            [s EXCEPT !.thrown = Some(data.error),
                      !.terminal = IF @ = "none" THEN "error" ELSE @]
      [] OTHER -> s

\* The switch as it would be if the 'fallback' marker were spread over the
\* progress already there: setProgress(prev => ({ ...prev, step: 1, ... })).
HandleEventSpreadsFallback(data, s) ==
    CASE data.type = "start" ->
            [s EXCEPT !.progress = Some([step |-> 0, total |-> 100, percent |-> 0,
                                         preview |-> Undefined, message |-> Undefined])]
      [] data.type = "progress" ->
            [s EXCEPT !.progress = Some([step |-> data.step, total |-> data.total,
                                         percent |-> data.percent,
                                         preview |-> data.preview,
                                         message |-> data.message])]
      [] data.type = "fallback" ->
            [s EXCEPT !.progress =
                Some([step |-> 1, total |-> 3, percent |-> 33,
                      preview |-> IF s.progress # Null THEN s.progress[1].preview
                                  ELSE Undefined,
                      message |-> "Using Lanczos fallback..."])]
      [] data.type = "complete" ->
            [s EXCEPT !.result = Some([image |-> data.image,
                                       originalSize |-> data.original_size,
                                       upscaledSize |-> data.upscaled_size,
                                       method |-> data.method]),
                      !.progress = Null,
                      !.status = "complete",
                      !.terminal = IF @ = "none" THEN "complete" ELSE @]
      [] data.type = "error" ->
            [s EXCEPT !.thrown = Some(data.error),
                      !.terminal = IF @ = "none" THEN "error" ELSE @]
      [] OTHER -> s

\* switch (data.type) { ... }
HandleEvent(data, s) ==
    CASE data.type = "start" ->
            [s EXCEPT !.progress = Some([step |-> 0, total |-> 100, percent |-> 0,
                                         preview |-> Undefined, message |-> Undefined])]
      [] data.type = "progress" ->
            [s EXCEPT !.progress = Some([step |-> data.step, total |-> data.total,
                                         percent |-> data.percent,
                                         preview |-> data.preview,
                                         message |-> data.message])]
      [] data.type = "fallback" ->
            [s EXCEPT !.progress = Some([step |-> 1, total |-> 3, percent |-> 33,
                                         preview |-> Undefined,
                                         message |-> "Using Lanczos fallback..."])]
      [] data.type = "complete" ->
            [s EXCEPT !.result = Some([image |-> data.image,
                                       originalSize |-> data.original_size,
                                       upscaledSize |-> data.upscaled_size,
                                       method |-> data.method]),
                      !.progress = Null,
                      !.status = "complete",
                      !.terminal = IF @ = "none" THEN "complete" ELSE @]
      [] data.type = "error" ->
            [s EXCEPT !.thrown = Some(data.error),
                      !.terminal = IF @ = "none" THEN "error" ELSE @]
      [] OTHER -> s

\* The line handling as it would be if a SyntaxError were rethrown like
\* any other exception.
HandleLineRethrows(line, s) ==
    IF ~StartsWithData(line) THEN s
    ELSE LET j == JSONparse(Slice6(line))
         IN  IF ~j.ok THEN [s EXCEPT !.thrown = Some("Unexpected end of JSON input")]
             ELSE HandleEvent(j.data, s)

\* The body of `for (const line of lines)` for one line.
HandleLine(line, s) ==
    IF ~StartsWithData(line) THEN s
    ELSE LET j == JSONparse(Slice6(line))
         IN  IF ~j.ok THEN s   \* SyntaxError: continue
             ELSE HandleEvent(j.data, s)

\* The for loop: lines in order, left by the first exception.
RECURSIVE ProcessLines(_, _)
ProcessLines(lines, s) ==
    IF lines = <<>> THEN s
    ELSE LET s1 == HandleLine(Head(lines), s)
         IN  IF s1.thrown # Null THEN s1
             ELSE ProcessLines(Tail(lines), s1)

\* The while loop as it would be if it cleared the buffer after handling
\* the lines of a chunk instead of keeping the last segment.
LoopTurnDropsRemainder(held, buffer, value, s) ==
    LET d     == Decode(held, value)
        segs  == Split(buffer \o d.text)
        lines == SubSeq(segs, 1, Len(segs) - 1)
    IN  [session |-> ProcessLines(lines, s),
         buffer  |-> IF lines = <<>> THEN segs[Len(segs)] ELSE <<>>,
         pending |-> d.pending]

\* One turn of the while loop on the chunk `value`: decode, append to the
\* buffer, split, keep the last segment, handle the lines.  held and buffer
\* are the decoder's and the loop's state from the turns before, s the
\* session the turn starts in.
LoopTurn(held, buffer, value, s) ==
    LET d     == Decode(held, value)
        segs  == Split(buffer \o d.text)
        lines == SubSeq(segs, 1, Len(segs) - 1)
    IN  [session |-> ProcessLines(lines, s),
         buffer  |-> segs[Len(segs)],
         pending |-> d.pending]

----------------------------------------------------------------------------
(* The bodies the server sends *)

EventLine(open) == <<"D", open, "}">>

\* The events the server sends in the bodies of Spec.
BodyTokens == {"{start", "{progressA", "{fallback", "{complete", "{error"}

\* The lines of a body: one per event, the blank line that separates
\* server-sent events, and a data line with no JSON text.
Lines == {EventLine(o) : o \in BodyTokens} \cup {<<>>, <<"D">>}

IsPrefix(p, l) == Len(p) <= Len(l) /\ SubSeq(l, 1, Len(p)) = p

\* Every start of a line, the whole line (not yet terminated) included.
Prefixes(L) == UNION {{SubSeq(l, 1, n) : n \in 0..Len(l)} : l \in L}

\* What can follow the buffered text b without ending its line.
Extensions(b, L) ==
    UNION {{SubSeq(l, Len(b) + 1, n) : n \in (Len(b) + 1)..Len(l)} :
           l \in {x \in L : IsPrefix(b, x)}}

\* What ends the line whose start b is buffered.
Completions(b, L) ==
    {SubSeq(l, Len(b) + 1, Len(l)) \o <<NL>> : l \in {x \in L : IsPrefix(b, x)}}

\* The chunks reader.read() may deliver when b is buffered.  The body is a
\* sequence of lines of L; a chunk here ends inside the line it starts in or
\* with that line's newline, so a body of several lines arrives as several
\* chunks.
ServerChunks(b, L) == Extensions(b, L) \cup Completions(b, L)

\* ServerChunks for every text the buffer can hold, computed once.
ChunkTable == [b \in Prefixes(Lines) |-> ServerChunks(b, Lines)]

----------------------------------------------------------------------------
(* Requests *)

Unused == [pc |-> "unused", aborted |-> FALSE, buffer |-> <<>>, pending |-> <<>>,
           terminal |-> "none", settled |-> "pending"]

\* A closure that has returned: its locals and its controller are garbage,
\* and the promise upscale() returned is fulfilled.
Returned == [pc |-> "done", aborted |-> FALSE, buffer |-> <<>>, pending |-> <<>>,
             terminal |-> "none", settled |-> "fulfilled"]

\* Awaiting fetch() or reader.read().
Pending(r) == reqs[r].pc \in {"fetch", "read"}

\* Issued, not aborted, stream not yet closed.
InFlight(r) == Pending(r) /\ ~reqs[r].aborted

\* A promise rejected by abort() whose closure has not resumed yet.
RejectionQueued == \E r \in ReqIds : Pending(r) /\ reqs[r].aborted

\* abortControllerRef.current.abort() when the ref is set.
AbortCurrent(rs) ==
    IF abortControllerRef # 0
    THEN [rs EXCEPT ![abortControllerRef].aborted = TRUE]
    ELSE rs

\* checkHealth() has not been called.
NoCall == [pc |-> "none", settled |-> "pending", value |-> Null]

\* No image is selected and no picked file is loading.
NoImage == [selected |-> FALSE, loading |-> FALSE]

TypeOK ==
    /\ status \in {"idle", "processing", "complete", "error"}
    /\ abortControllerRef \in 0..MaxRequests
    /\ nextReq \in 1..(MaxRequests + 1)
    /\ cancelled \in BOOLEAN

Init ==
    /\ status = "idle"
    /\ error = Undefined
    /\ progress = Null
    /\ result = Null
    /\ abortControllerRef = 0
    /\ reqs = [r \in ReqIds |-> Unused]
    /\ nextReq = 1
    /\ cancelled = FALSE
    /\ sent = [r \in ReqIds |-> <<>>]
    /\ health = NoCall
    /\ image = NoImage

----------------------------------------------------------------------------
(* API calls *)

\* upscale() as it would be without its setError(undefined).
UpscaleKeepsError ==
    /\ nextReq <= MaxRequests
    /\ reqs' = [AbortCurrent(reqs) EXCEPT ![nextReq] =
                    [pc |-> "fetch", aborted |-> FALSE, buffer |-> <<>>, pending |-> <<>>,
                     terminal |-> "none", settled |-> "pending"]]
    /\ abortControllerRef' = nextReq
    /\ status' = "processing"
    /\ progress' = Null
    /\ result' = Null
    /\ nextReq' = nextReq + 1
    /\ cancelled' = FALSE
    /\ UNCHANGED <<error, sent, health, image>>

\* upscale() as it would be without its setResult(null).
UpscaleKeepsResult ==
    /\ nextReq <= MaxRequests
    /\ reqs' = [AbortCurrent(reqs) EXCEPT ![nextReq] =
                    [pc |-> "fetch", aborted |-> FALSE, buffer |-> <<>>, pending |-> <<>>,
                     terminal |-> "none", settled |-> "pending"]]
    /\ abortControllerRef' = nextReq
    /\ status' = "processing"
    /\ error' = Undefined
    /\ progress' = Null
    /\ nextReq' = nextReq + 1
    /\ cancelled' = FALSE
    /\ UNCHANGED <<result, sent, health, image>>

\* upscale(image, params), up to `await fetch(...)`.
Upscale ==
    /\ nextReq <= MaxRequests
    /\ reqs' = [AbortCurrent(reqs) EXCEPT ![nextReq] =
                    [pc |-> "fetch", aborted |-> FALSE, buffer |-> <<>>, pending |-> <<>>,
                     terminal |-> "none", settled |-> "pending"]]
    /\ abortControllerRef' = nextReq
    /\ status' = "processing"
    /\ error' = Undefined
    /\ progress' = Null
    /\ result' = Null
    /\ nextReq' = nextReq + 1
    /\ cancelled' = FALSE
    /\ UNCHANGED <<sent, health, image>>

\* cancel() as it would be without `abortControllerRef.current = null`.
CancelKeepsHandle ==
    /\ reqs' = AbortCurrent(reqs)
    /\ status' = "idle"
    /\ progress' = Null
    /\ cancelled' = TRUE
    /\ UNCHANGED <<error, result, nextReq, sent, health, image, abortControllerRef>>

\* cancel() as it would be without its setProgress(null).
CancelKeepsProgress ==
    /\ reqs' = AbortCurrent(reqs)
    /\ abortControllerRef' = 0
    /\ status' = "idle"
    /\ cancelled' = TRUE
    /\ UNCHANGED <<error, progress, result, nextReq, sent, health, image>>

\* cancel()
Cancel ==
    /\ reqs' = AbortCurrent(reqs)
    /\ abortControllerRef' = 0
    /\ status' = "idle"
    /\ progress' = Null
    /\ cancelled' = TRUE
    /\ UNCHANGED <<error, result, nextReq, sent, health, image>>

\* reset() as it would be without its call of cancel().
ResetWithoutCancel ==
    /\ error' = Undefined
    /\ result' = Null
    /\ cancelled' = TRUE
    /\ UNCHANGED <<status, progress, abortControllerRef, reqs, nextReq, sent, health, image>>

\* reset(): cancel(); setError(undefined); setResult(null).  What the call
\* does to the hook.
ResetCall ==
    /\ reqs' = AbortCurrent(reqs)
    /\ abortControllerRef' = 0
    /\ status' = "idle"
    /\ progress' = Null
    /\ error' = Undefined
    /\ result' = Null
    /\ cancelled' = TRUE
    /\ UNCHANGED <<nextReq, sent, health>>

\* reset() called on its own.
Reset == ResetCall /\ UNCHANGED image

----------------------------------------------------------------------------
(* Callbacks of a request *)

\* The closure leaves through `finally`.
Finish(r) ==
    /\ reqs' = [reqs EXCEPT ![r] = Returned]
    /\ abortControllerRef' = 0

\* The catch block as it would be if it rethrew what it reports: the
\* promise of upscale() is rejected.
FailRethrows(r, message) ==
    /\ error' = message
    /\ status' = "error"
    /\ reqs' = [reqs EXCEPT ![r] = [Returned EXCEPT !.settled = "rejected"]]
    /\ abortControllerRef' = 0
    /\ UNCHANGED <<progress, result, nextReq, cancelled, sent, health, image>>

\* catch (err) for anything but an AbortError, then finally.
Fail(r, message) ==
    /\ error' = message
    /\ status' = "error"
    /\ Finish(r)
    /\ UNCHANGED <<progress, result, nextReq, cancelled, sent, health, image>>

\* The catch block as it would be without its AbortError branch.
AbortRejectedAsFailure(r) ==
    /\ Pending(r)
    /\ reqs[r].aborted
    /\ Fail(r, "The user aborted a request.")

\* The awaited promise was rejected by abort(): catch (AbortError), finally.
AbortRejected(r) ==
    /\ Pending(r)
    /\ reqs[r].aborted
    /\ status' = "idle"
    /\ Finish(r)
    /\ UNCHANGED <<error, progress, result, nextReq, cancelled, sent, health, image>>

\* fetch() rejects: the network failed.
FetchRejected(r) ==
    /\ reqs[r].pc = "fetch" /\ InFlight(r) /\ ~RejectionQueued
    /\ Fail(r, "Failed to fetch")

\* fetch() resolves with a status that is not OK.
FetchNotOk(r) ==
    /\ reqs[r].pc = "fetch" /\ InFlight(r) /\ ~RejectionQueued
    /\ Fail(r, "Server error: 500")

\* fetch() resolves with no body.
FetchNoBody(r) ==
    /\ reqs[r].pc = "fetch" /\ InFlight(r) /\ ~RejectionQueued
    /\ Fail(r, "No response body")

\* fetch() resolves OK with a body: the read loop starts.
FetchOk(r) ==
    /\ reqs[r].pc = "fetch" /\ InFlight(r) /\ ~RejectionQueued
    /\ reqs' = [reqs EXCEPT ![r].pc = "read"]
    /\ UNCHANGED <<status, error, progress, result, abortControllerRef, nextReq, cancelled, sent, health, image>>

\* reader.read() resolves with a chunk: one turn of the while loop, then
\* the next reader.read() or, on an exception, catch and finally.
ReadChunk(r, chunk) ==
    /\ reqs[r].pc = "read" /\ InFlight(r) /\ ~RejectionQueued
    /\ LET t == LoopTurn(reqs[r].pending, reqs[r].buffer, chunk,
                         Session(status, error, progress, result, reqs[r].terminal))
           s == t.session
       IN  /\ progress' = s.progress
           /\ result' = s.result
           /\ IF s.thrown = Null
              THEN /\ status' = s.status
                   /\ error' = s.error
                   /\ reqs' = [reqs EXCEPT ![r].buffer = t.buffer,
                                           ![r].pending = t.pending,
                                           ![r].terminal = s.terminal]
                   /\ UNCHANGED abortControllerRef
              ELSE /\ status' = "error"
                   /\ error' = s.thrown[1]
                   /\ reqs' = [reqs EXCEPT ![r] = Returned]
                   /\ abortControllerRef' = 0
    /\ UNCHANGED <<nextReq, cancelled, health, image>>

\* The done branch as it would be if the end of the stream were taken for
\* a cancellation.
ReadDoneSetsIdle(r) ==
    /\ reqs[r].pc = "read" /\ InFlight(r) /\ ~RejectionQueued
    /\ status' = "idle"
    /\ Finish(r)
    /\ UNCHANGED <<error, progress, result, nextReq, cancelled, sent, health, image>>

\* The done branch as it would be if the end of the stream were taken for
\* success.
ReadDoneSetsComplete(r) ==
    /\ reqs[r].pc = "read" /\ InFlight(r) /\ ~RejectionQueued
    /\ status' = "complete"
    /\ Finish(r)
    /\ UNCHANGED <<error, progress, result, nextReq, cancelled, sent, health, image>>

\* The done branch as it would be if it handled the text left in the
\* buffer as a last line before leaving the loop.
ReadDoneFlushesTail(r) ==
    /\ reqs[r].pc = "read" /\ InFlight(r) /\ ~RejectionQueued
    /\ LET s == HandleLine(reqs[r].buffer,
                           Session(status, error, progress, result, reqs[r].terminal))
       IN  /\ progress' = s.progress
           /\ result' = s.result
           /\ status' = IF s.thrown = Null THEN s.status ELSE "error"
           /\ error' = IF s.thrown = Null THEN s.error ELSE s.thrown[1]
    /\ Finish(r)
    /\ UNCHANGED <<nextReq, cancelled, sent, health, image>>

\* One turn of the while loop on any chunk the server may send next.
Read(r) ==
    /\ \E chunk \in ChunkTable[reqs[r].buffer] : ReadChunk(r, chunk)
    /\ UNCHANGED <<sent, health, image>>

\* reader.read() resolves with done: break, then finally.
ReadDone(r) ==
    /\ reqs[r].pc = "read" /\ InFlight(r) /\ ~RejectionQueued
    /\ Finish(r)
    /\ UNCHANGED <<status, error, progress, result, nextReq, cancelled, sent, health, image>>

Next ==
    \/ Upscale
    \/ Cancel
    \/ Reset
    \/ \E r \in ReqIds : AbortRejected(r)
    \/ \E r \in ReqIds : FetchRejected(r)
    \/ \E r \in ReqIds : FetchNotOk(r)
    \/ \E r \in ReqIds : FetchNoBody(r)
    \/ \E r \in ReqIds : FetchOk(r)
    \/ \E r \in ReqIds : Read(r)
    \/ \E r \in ReqIds : ReadDone(r)

Spec == Init /\ [][Next]_vars

----------------------------------------------------------------------------
(* Steps by kind *)

\* A step of some request's closure: a network callback or a queued rejection.
CallbackStep ==
    \E r \in ReqIds :
        \/ AbortRejected(r)
        \/ FetchRejected(r)
        \/ FetchNotOk(r)
        \/ FetchNoBody(r)
        \/ FetchOk(r)
        \/ Read(r)
        \/ ReadDone(r)

----------------------------------------------------------------------------
(* One request and the bytes of its stream *)

\* The events the server sends in the bodies of SpecStream.
StreamTokens == {"{start", "{progressA", "{progressB", "{fallback", "{complete", "{error"}

\* The data line of the progress event whose message holds the two-byte
\* character.
MessageLine == <<"D", MessageOpen, LeadByte, ContinuationByte, MessageClose>>

\* The lines of a body, as bytes.
StreamLines == {EventLine(o) : o \in StreamTokens} \cup {<<>>, <<"D">>, MessageLine}

\* The bytes that can follow the start p of a line.
NextBytes(p) ==
    {l[Len(p) + 1] : l \in {x \in StreamLines : IsPrefix(p, x) /\ Len(x) > Len(p)}}
        \cup (IF p \in StreamLines THEN {NL} ELSE {})

\* The byte sequences of at most k bytes that can follow the start p of a
\* line in a body that has `left` more lines to end.
RECURSIVE Continuations(_, _, _)
Continuations(p, left, k) ==
    IF k = 0 \/ left = 0 THEN {<<>>}
    ELSE {<<>>} \cup
         UNION {{<<b>> \o c :
                    c \in Continuations(IF b = NL THEN <<>> ELSE Append(p, b),
                                        IF b = NL THEN left - 1 ELSE left,
                                        k - 1)} :
                b \in NextBytes(p)}

\* The chunks reader.read() may deliver after the bytes s: the network cuts
\* the body anywhere, inside a line and inside a character included.
BodyChunks(s) ==
    LET segs == Split(s)
    IN  Continuations(segs[Len(segs)], MaxBodyLines - (Len(segs) - 1), MaxChunkBytes)
            \ {<<>>}

\* The first upscale() of a fresh controller.
StreamStart == nextReq = 1 /\ Upscale

StreamOpen == FetchOk(1)

StreamRead ==
    \E chunk \in BodyChunks(sent[1]) :
        /\ ReadChunk(1, chunk)
        /\ sent' = [sent EXCEPT ![1] = @ \o chunk]

StreamEnd == ReadDone(1)

NextStream ==
    \/ StreamStart
    \/ StreamOpen
    \/ StreamRead
    \/ StreamEnd

SpecStream == Init /\ [][NextStream]_vars

\* The session a request starts in: what upscale() leaves.
FreshSession == Session("processing", Undefined, Null, Null, "none")

\* The read loop on a body that arrives as one chunk.
OneShot(bytes) == LoopTurn(<<>>, <<>>, bytes, FreshSession)

\* What the hook exposes once the loop has left session s: the catch block
\* turns an exception into status 'error' and its message.
Exposed(s) ==
    [status   |-> IF s.thrown = Null THEN s.status ELSE "error",
     error    |-> IF s.thrown = Null THEN s.error ELSE s.thrown[1],
     progress |-> s.progress,
     result   |-> s.result]

\* The lines of a text that are terminated by a newline.
CompleteLines(text) ==
    LET segs == Split(text)
    IN  SubSeq(segs, 1, Len(segs) - 1)

\* The event a line carries: Some(data) when it is a data line whose JSON
\* text parses, Null otherwise.
EventOf(line) ==
    IF StartsWithData(line) /\ JSONparse(Slice6(line)).ok
    THEN Some(JSONparse(Slice6(line)).data)
    ELSE Null

\* The event of the last line that carries one, Null if none does.
RECURSIVE LastEvent(_)
LastEvent(lines) ==
    IF lines = <<>> THEN Null
    ELSE IF EventOf(lines[Len(lines)]) # Null THEN EventOf(lines[Len(lines)])
    ELSE LastEvent(SubSeq(lines, 1, Len(lines) - 1))

\* The types of the events the lines carry.
EventTypes(lines) ==
    {EventOf(lines[i])[1].type : i \in {j \in 1..Len(lines) : EventOf(lines[j]) # Null}}

\* A data line whose JSON text does not parse.
Malformed(line) == StartsWithData(line) /\ ~JSONparse(Slice6(line)).ok

WellFormed(line) == ~Malformed(line)

\* What the hook exposes now.
Controller == [status |-> status, error |-> error, progress |-> progress, result |-> result]

----------------------------------------------------------------------------
(* A server that sends start, progress events, complete *)

\* The lines the server may send after the body s: 'start' first, then
\* 'progress' events, then one 'complete', and nothing after it.
OrderedLines(s) ==
    LET lines == CompleteLines(s)
        n     == Len(lines)
    IN  IF n = 0 THEN {EventLine("{start")}
        ELSE IF lines[n] = EventLine("{complete") THEN {}
        ELSE {EventLine("{complete")}
                \cup (IF n - 1 < MaxProgressEvents THEN {EventLine("{progressA")} ELSE {})

\* One turn of the while loop on the next event of such a body, newline
\* included.
OrderedRead(r) ==
    \E line \in OrderedLines(sent[r]) :
        /\ ReadChunk(r, line \o <<NL>>)
        /\ sent' = [sent EXCEPT ![r] = @ \o line \o <<NL>>]

NextOrdered ==
    \/ Upscale
    \/ Cancel
    \/ Reset
    \/ \E r \in ReqIds : AbortRejected(r)
    \/ \E r \in ReqIds : FetchRejected(r)
    \/ \E r \in ReqIds : FetchNotOk(r)
    \/ \E r \in ReqIds : FetchNoBody(r)
    \/ \E r \in ReqIds : FetchOk(r)
    \/ \E r \in ReqIds : OrderedRead(r)
    \/ \E r \in ReqIds : ReadDone(r)

SpecOrdered == Init /\ [][NextOrdered]_vars

----------------------------------------------------------------------------
(* The promises of checkHealth() and upscale() *)

\* What the hook holds: everything but the page's own state.
hookVars == <<status, error, progress, result, abortControllerRef, reqs, nextReq,
              cancelled, sent>>

\* The object res.json() resolves with for a healthy backend.
HealthPayload == [status |-> "healthy", model_loaded |-> TRUE, model_loading |-> FALSE]

\* checkHealth(), up to `await fetch(...)`.  The page polls: a call follows
\* the one before.
CheckHealth ==
    /\ health.pc \in {"none", "returned"}
    /\ health' = [pc |-> "fetch", settled |-> "pending", value |-> Null]
    /\ UNCHANGED <<hookVars, image>>

\* checkHealth() returns v: its promise is fulfilled with v.
HealthReturns(v) ==
    /\ health' = [pc |-> "returned", settled |-> "fulfilled", value |-> v]
    /\ UNCHANGED <<hookVars, image>>

\* fetch() rejects (the host is unreachable): catch, return null.
HealthFetchRejected ==
    /\ health.pc = "fetch"
    /\ HealthReturns(Null)

\* The response is not OK: throw, catch, return null.
HealthNotOk ==
    /\ health.pc = "fetch"
    /\ health' = [pc |-> "returned", settled |-> "fulfilled", value |-> Null]
    /\ UNCHANGED <<hookVars, image>>

\* The response is OK: await res.json().
HealthOk ==
    /\ health.pc = "fetch"
    /\ health' = [health EXCEPT !.pc = "json"]
    /\ UNCHANGED <<hookVars, image>>

\* `return res.json()` without the await: the rejection passes the catch
\* block by and rejects the promise of checkHealth().
HealthJsonRejectedEscapes ==
    /\ health.pc = "json"
    /\ health' = [pc |-> "returned", settled |-> "rejected", value |-> Null]
    /\ UNCHANGED <<hookVars, image>>

\* res.json() rejects (the body does not parse): catch, return null.
HealthJsonRejected ==
    /\ health.pc = "json"
    /\ HealthReturns(Null)

\* res.json() resolves: return the parsed payload.
HealthJsonResolved ==
    /\ health.pc = "json"
    /\ HealthReturns(Some(HealthPayload))

\* upscale(image, params) with an argument the request cannot be built
\* from (params.scale undefined, say): the TypeError is thrown inside the
\* try block before fetch(), so catch and finally run within the call.
UpscaleBuildThrows ==
    /\ nextReq <= MaxRequests
    /\ reqs' = [AbortCurrent(reqs) EXCEPT ![nextReq] = Returned]
    /\ abortControllerRef' = 0
    /\ status' = "error"
    /\ error' = "Cannot read properties of undefined (reading 'toString')"
    /\ progress' = Null
    /\ result' = Null
    /\ nextReq' = nextReq + 1
    /\ cancelled' = FALSE
    /\ UNCHANGED <<sent, health, image>>

\* reader.read() rejects for a reason other than an abort: the connection
\* was lost.
ReadRejected(r) ==
    /\ reqs[r].pc = "read" /\ InFlight(r) /\ ~RejectionQueued
    /\ Fail(r, "network error")

\* One turn of the while loop on a chunk that holds one whole line.
ReadLine(r) ==
    /\ \E line \in Lines : ReadChunk(r, line \o <<NL>>)
    /\ UNCHANGED sent

NextCalls ==
    \/ CheckHealth
    \/ HealthFetchRejected
    \/ HealthNotOk
    \/ HealthOk
    \/ HealthJsonRejected
    \/ HealthJsonResolved
    \/ Upscale
    \/ UpscaleBuildThrows
    \/ Cancel
    \/ \E r \in ReqIds : AbortRejected(r)
    \/ \E r \in ReqIds : FetchRejected(r)
    \/ \E r \in ReqIds : FetchNotOk(r)
    \/ \E r \in ReqIds : FetchNoBody(r)
    \/ \E r \in ReqIds : FetchOk(r)
    \/ \E r \in ReqIds : ReadLine(r)
    \/ \E r \in ReqIds : ReadRejected(r)
    \/ \E r \in ReqIds : ReadDone(r)

SpecCalls == Init /\ [][NextCalls]_vars

----------------------------------------------------------------------------
(* The page *)

\* const isProcessing = status === 'processing'
isProcessing == status = "processing"

\* A file is dropped on or chosen in the viewer, which is not disabled: the
\* viewer starts loading it.
PickFile ==
    /\ ~isProcessing
    /\ ~image.loading
    /\ image' = [image EXCEPT !.loading = TRUE]
    /\ UNCHANGED <<hookVars, health>>

\* img.onload of the picked file: handleImageSelect.
handleImageSelect ==
    /\ image.loading
    /\ image' = [selected |-> TRUE, loading |-> FALSE]
    /\ ResetCall

\* The Clear button, shown when an image is selected.
handleClear ==
    /\ image.selected
    /\ image' = [image EXCEPT !.selected = FALSE]
    /\ ResetCall

\* The Upscale button, shown when not processing and enabled when an image
\* is selected: handleUpscale.
handleUpscale ==
    /\ ~isProcessing
    /\ image.selected
    /\ Upscale

\* The Cancel button, shown when processing.
ClickCancel ==
    /\ isProcessing
    /\ Cancel

NextPage ==
    \/ PickFile
    \/ handleImageSelect
    \/ handleClear
    \/ handleUpscale
    \/ ClickCancel
    \/ \E r \in ReqIds : AbortRejected(r)
    \/ \E r \in ReqIds : FetchRejected(r)
    \/ \E r \in ReqIds : FetchNotOk(r)
    \/ \E r \in ReqIds : FetchNoBody(r)
    \/ \E r \in ReqIds : FetchOk(r)
    \/ \E r \in ReqIds : ReadLine(r)
    \/ \E r \in ReqIds : ReadDone(r)

SpecPage == Init /\ [][NextPage]_vars

----------------------------------------------------------------------------
(* Claims *)

\* C1: at most one request is in flight (issued, not aborted, stream not yet
\* closed) at any time, whatever the sequence of upscale(), cancel() and
\* reset() calls and network callbacks.
C1_AtMostOneInFlight == Cardinality({r \in ReqIds : InFlight(r)}) <= 1

\* C2: when an earlier request was superseded by a new upscale(), the abort
\* of the earlier request (its rejection handler running while the handle
\* belongs to the newer request) leaves status 'processing': it never moves
\* the controller to 'idle' or 'error'.
C2_SupersededAbortKeepsProcessing ==
    [][\A r \in ReqIds :
          (AbortRejected(r) /\ abortControllerRef # 0 /\ status = "processing")
              => status' = "processing"]_vars

\* C3: whenever a request is in flight, abortControllerRef refers to that
\* request's abort controller.
C3_HandleRefersToInFlight ==
    \A r \in ReqIds : InFlight(r) => abortControllerRef = r

\* C4: cancel() called while status is 'processing' leaves status 'idle',
\* progress null and error unset, whatever part of the stream was consumed.
C4_CancelWhileProcessing ==
    [][(Cancel /\ status = "processing")
          => (status' = "idle" /\ progress' = Null /\ error' = Undefined)]_vars

\* C4 witness: cancel() has just aborted a request in the middle of its
\* stream (a partial line is buffered, the rejection is still queued).
C4_Witness ==
    /\ cancelled /\ status = "idle" /\ progress = Null /\ error = Undefined
    /\ \E r \in ReqIds :
          reqs[r].pc = "read" /\ reqs[r].aborted /\ reqs[r].buffer # <<>>

\* C5: after cancel() or reset(), and until the next upscale() call, no
\* callback changes status, error, progress or result.
C5_NoChangeAfterCancel ==
    [][(cancelled /\ CallbackStep) => UNCHANGED <<status, error, progress, result>>]_vars

\* C6 as stated: a controller in 'complete' or 'error' becomes 'idle' only
\* by a reset() call.
C6_IdleOnlyByReset ==
    [][(status \in {"complete", "error"} /\ status' = "idle") => Reset]_vars

\* C6 as amended: a controller in 'complete' or 'error' becomes 'idle' only
\* by a cancel() or reset() call, never by a callback.
C6_IdleOnlyByCancelOrReset ==
    [][(status \in {"complete", "error"} /\ status' = "idle") => (Cancel \/ Reset)]_vars

\* C6 witness: cancel() was called on a complete controller: status is
\* 'idle' and the result is still there (reset() would have cleared it).
C6_Witness == cancelled /\ status = "idle" /\ result # Null

\* C7: status leaves 'idle' only by upscale() and then is 'processing';
\* 'complete' and 'error' are entered only from 'processing'.
C7_Transitions ==
    [][/\ (status = "idle" /\ status' # "idle") => (Upscale /\ status' = "processing")
       /\ (status' \in {"complete", "error"} /\ status' # status) => status = "processing"]_vars

\* C8: once a stream has delivered its first 'complete' or 'error' event,
\* no later event of that stream changes status, error, progress or result.
C8_OneTerminalOutcome ==
    [][\A r \in ReqIds :
          (reqs[r].terminal # "none" /\ Read(r))
              => UNCHANGED <<status, error, progress, result>>]_vars

\* A 'complete' event is among the lines.
HasCompleteEvent(lines) ==
    \E i \in 1..Len(lines) :
        /\ StartsWithData(lines[i])
        /\ JSONparse(Slice6(lines[i])).ok
        /\ JSONparse(Slice6(lines[i])).data.type = "complete"

\* C9: the end of a stream changes neither status nor result, and status
\* becomes 'complete' or result is populated only in a read step whose lines
\* hold a 'complete' event: a stream that closes without one reports nothing.
C9_NoCompleteWithoutEvent ==
    [][/\ \A r \in ReqIds : ReadDone(r) => UNCHANGED <<status, result>>
       /\ ((status' = "complete" /\ status # "complete")
              \/ (result' # Null /\ result' # result))
            => \E r \in ReqIds : \E chunk \in ChunkTable[reqs[r].buffer] :
                   /\ ReadChunk(r, chunk)
                   /\ LET segs == Split(reqs[r].buffer \o Decode(reqs[r].pending, chunk).text)
                      IN  HasCompleteEvent(SubSeq(segs, 1, Len(segs) - 1))]_vars

\* C9 witness: the only request's stream has closed without a 'complete'
\* event; the controller reports 'processing' and no result.
C9_Witness ==
    /\ nextReq = 2 /\ ~cancelled
    /\ reqs[1].pc = "done"
    /\ status = "processing" /\ result = Null

\* C10: when a stream closes without a 'complete' or 'error' event, the
\* session surfaces as status 'error'.
C10_CloseSurfacesError ==
    [][\A r \in ReqIds :
          (ReadDone(r) /\ reqs[r].terminal = "none" /\ status = "processing")
              => status' = "error"]_vars

\* C11: after a read step whose last event is a valid 'progress' event (and
\* in which nothing was thrown), the exposed progress is exactly that
\* event's step, total, percent, preview and message: a field the event
\* does not carry is absent, not carried over from the progress before.
C11_ProgressReplacedWholesale ==
    [][\A chunk \in BodyChunks(sent[1]) :
          LET e == LastEvent(CompleteLines(reqs[1].buffer
                                             \o Decode(reqs[1].pending, chunk).text))
          IN  (/\ ReadChunk(1, chunk)
               /\ reqs'[1].pc = "read"
               /\ e # Null
               /\ e[1].type = "progress")
                  => progress' = Some([step |-> e[1].step, total |-> e[1].total,
                                       percent |-> e[1].percent,
                                       preview |-> e[1].preview,
                                       message |-> e[1].message])]_vars

\* C11 witness: a 'progress' event with a preview and a message was
\* followed by one with neither; the exposed progress has neither.
C11_Witness ==
    /\ sent[1] = EventLine("{progressA") \o <<NL>> \o EventLine("{progressB") \o <<NL>>
    /\ progress = Some([step |-> 5, total |-> 10, percent |-> 50,
                        preview |-> Undefined, message |-> Undefined])

\* C12: when the stream of the latest request consists of 'start',
\* 'progress' events and one 'complete', each ended by a newline, and
\* cancel() was not called since the request was issued, the step that
\* handles 'complete' leaves status 'complete', result equal to the event's
\* image, original_size, upscaled_size and method, progress null and error
\* unset.
C12_OrderedStreamCompletes ==
    [][\A r \in ReqIds :
          (/\ r = nextReq - 1
           /\ ~cancelled
           /\ OrderedRead(r)
           /\ LET lines == CompleteLines(sent'[r])
              IN  lines[Len(lines)] = EventLine("{complete"))
              => /\ status' = "complete"
                 /\ result' = Some([image |-> "AAA", originalSize |-> <<100, 100>>,
                                    upscaledSize |-> <<200, 200>>, method |-> "ml"])
                 /\ progress' = Null
                 /\ error' = Undefined]_vars

\* C13: a data line whose JSON text does not parse is skipped: whatever the
\* stream has delivered, status, error, progress and result are what the
\* loop gives on the same lines with the unparsable ones left out, so such a
\* line changes none of the four and the events after it are still applied.
C13_MalformedSkipped ==
    reqs[1].pc \in {"read", "done"} =>
        Controller = Exposed(ProcessLines(
                        SelectSeq(CompleteLines(Decode(<<>>, sent[1]).text), WellFormed),
                        FreshSession))

\* C13 witness: the stream start, unparsable data line, complete has ended
\* with status 'complete' and the event's result.
C13_Witness ==
    /\ sent[1] = EventLine("{start") \o <<NL, "D", NL>> \o EventLine("{complete") \o <<NL>>
    /\ status = "complete"
    /\ result # Null
    /\ progress = Null

\* C14: what the controller exposes depends only on the bytes the stream has
\* delivered, not on how the network cut them into chunks: after any
\* chunking of those bytes, a cut inside a 'data: {...}' line or inside a
\* character included, status, error, progress and result are what the loop
\* gives on the same bytes arriving as one chunk.
C14_ChunkingInvariant ==
    reqs[1].pc \in {"read", "done"} =>
        LET t == OneShot(sent[1])
        IN  /\ Controller = Exposed(t.session)
            /\ (reqs[1].pc = "read" =>
                    /\ reqs[1].buffer = t.buffer
                    /\ reqs[1].pending = t.pending)

\* C14 witness: a 'start' event was applied, and the next line arrived cut
\* inside its two-byte character: the decoder holds the lead byte, the
\* buffer the start of the line.
C14_Witness ==
    /\ reqs[1].pc = "read"
    /\ reqs[1].pending = <<LeadByte>>
    /\ reqs[1].buffer = <<"D", MessageOpen>>
    /\ sent[1] = EventLine("{start") \o <<NL, "D", MessageOpen, LeadByte>>
    /\ progress = Some([step |-> 0, total |-> 100, percent |-> 0,
                        preview |-> Undefined, message |-> Undefined])

\* C15: a cancellation never surfaces as an error: cancel(), reset() and a
\* superseding upscale() leave status other than 'error' and set no error
\* message, and so does the handler of the request they abort, whether the
\* abort lands while it awaits the response headers or a chunk.
C15_CancellationNeverErrors ==
    [][/\ (Cancel \/ Reset \/ Upscale)
            => (status' # "error" /\ error' \in {error, Undefined})
       /\ \A r \in ReqIds :
            AbortRejected(r) => (status' # "error" /\ error' = error)]_vars

\* C15 witness: request 1 was aborted by a superseding upscale() while it
\* awaited a chunk, request 2 by cancel() while it awaited the headers; no
\* error is reported.
C15_Witness ==
    /\ reqs[1].pc = "read" /\ reqs[1].aborted
    /\ reqs[2].pc = "fetch" /\ reqs[2].aborted
    /\ cancelled
    /\ status = "idle"
    /\ error = Undefined

\* C16: a read step that handles an 'error' event while status is
\* 'processing' leaves status 'error' and error equal to the event's
\* message, and result stays null.
C16_ErrorEventSurfaces ==
    [][\A r \in ReqIds : \A chunk \in ChunkTable[reqs[r].buffer] :
          LET e == LastEvent(CompleteLines(reqs[r].buffer
                                             \o Decode(reqs[r].pending, chunk).text))
          IN  (/\ status = "processing"
               /\ ReadChunk(r, chunk)
               /\ e # Null
               /\ e[1].type = "error")
                  => /\ status' = "error"
                     /\ error' = e[1].error
                     /\ result = Null /\ result' = Null]_vars

\* C16 witness: an 'error' event was handled: status 'error', the event's
\* message, no result.
C16_Witness ==
    /\ status = "error"
    /\ error = "Out of memory"
    /\ result = Null

\* C17: a request whose stream fails to open (fetch rejects for a reason
\* other than an abort, the response is not OK, or it has no body) takes
\* the controller from 'processing' to 'error' with an error message, and
\* sets neither progress nor result.
C17_OpenFailureFromProcessing ==
    [][\A r \in ReqIds :
          (FetchRejected(r) \/ FetchNotOk(r) \/ FetchNoBody(r))
              => /\ status = "processing"
                 /\ status' = "error"
                 /\ error' # Undefined
                 /\ UNCHANGED <<progress, result>>]_vars

\* C18: immediately after upscale(), from any state, status is
\* 'processing', error is unset, progress is null and result is null.
C18_UpscaleClearsSession ==
    [][Upscale => /\ status' = "processing"
                  /\ error' = Undefined
                  /\ progress' = Null
                  /\ result' = Null]_vars

\* C18 witness: upscale() was called when request 1's stream had delivered
\* 'complete' (a result was exposed) and was still open: the call aborted
\* it, and no result is exposed.
C18_Witness ==
    /\ reqs[1].terminal = "complete" /\ reqs[1].aborted
    /\ reqs[2].pc = "fetch" /\ ~reqs[2].aborted
    /\ ~cancelled
    /\ status = "processing"
    /\ error = Undefined /\ progress = Null /\ result = Null

\* C19: after reset(), from any state, status is 'idle', progress is null,
\* error is unset, result is null, and no request is in flight any more.
C19_ResetAbortsAndClears ==
    [][Reset => /\ status' = "idle"
                /\ progress' = Null
                /\ error' = Undefined
                /\ result' = Null
                /\ \A r \in ReqIds :
                      reqs'[r].pc \in {"fetch", "read"} => reqs'[r].aborted]_vars

\* C20: cancel() is idempotent and safe with no active request.  Every
\* cancel() leaves the handle null, status 'idle' and progress null; a
\* cancel() in such a state (so a second cancel() in a row) changes nothing
\* and aborts nothing; and a cancel() when no request is in flight aborts
\* nothing.
C20_CancelIdempotent ==
    [][Cancel =>
          /\ abortControllerRef' = 0 /\ status' = "idle" /\ progress' = Null
          /\ (abortControllerRef = 0 /\ status = "idle" /\ progress = Null)
                => UNCHANGED <<status, error, progress, result, abortControllerRef, reqs>>
          /\ (\A r \in ReqIds : ~InFlight(r)) => reqs' = reqs]_vars

\* C20 witness: cancel() was called on a controller that exposed a result,
\* and the only request has ended: nothing is in flight or aborted, the
\* handle is null, status is 'idle' and the result is kept.
C20_Witness ==
    /\ cancelled
    /\ nextReq = 2 /\ reqs[1].pc = "done"
    /\ abortControllerRef = 0
    /\ status = "idle" /\ progress = Null
    /\ result # Null

\* C21: checkHealth() never throws or rejects: its promise is fulfilled with
\* the parsed payload when the GET succeeds with an OK status and a body
\* that parses, and with null on every failure (fetch rejects, status not
\* OK, body does not parse); no step of it changes status, error, progress,
\* result or the handle.
C21_CheckHealthNeverRejects ==
    [][/\ (HealthFetchRejected \/ HealthNotOk \/ HealthJsonRejected)
            => health' = [pc |-> "returned", settled |-> "fulfilled", value |-> Null]
       /\ HealthJsonResolved
            => health' = [pc |-> "returned", settled |-> "fulfilled",
                          value |-> Some(HealthPayload)]
       /\ health' # health
            => /\ health'.settled # "rejected"
               /\ UNCHANGED <<status, error, progress, result, abortControllerRef>>]_vars

\* C21 witness: a checkHealth() call has failed and returned null, and the
\* controller is processing a request that has shown progress.
C21_Witness ==
    /\ health = [pc |-> "returned", settled |-> "fulfilled", value |-> Null]
    /\ status = "processing"
    /\ progress # Null
    /\ abortControllerRef # 0

\* C22: the promise of upscale() never rejects: a failure raised while
\* building the request, opening the stream, reading a chunk or handling an
\* event leaves the promise fulfilled, status 'error' and an error message;
\* an abort leaves it fulfilled without an error status.
C22_UpscaleNeverRejects ==
    [][/\ \A r \in ReqIds : reqs'[r].settled # "rejected"
       /\ UpscaleBuildThrows
            => /\ reqs'[nextReq].settled = "fulfilled"
               /\ status' = "error" /\ error' # Undefined
       /\ \A r \in ReqIds :
            /\ (\/ FetchRejected(r) \/ FetchNotOk(r) \/ FetchNoBody(r)
                \/ ReadRejected(r)
                \/ (ReadLine(r) /\ reqs'[r].pc = "done"))
                  => /\ reqs'[r].settled = "fulfilled"
                     /\ status' = "error" /\ error' # Undefined
            /\ AbortRejected(r)
                  => /\ reqs'[r].settled = "fulfilled"
                     /\ status' # "error"]_vars

\* C22 witness: the second upscale() call lost its connection while it
\* read the stream: the promises of both calls are fulfilled, and the
\* controller reports the failure.
C22_Witness ==
    /\ nextReq = 3
    /\ reqs[1].settled = "fulfilled" /\ reqs[2].settled = "fulfilled"
    /\ abortControllerRef = 0
    /\ status = "error"
    /\ error = "network error"

\* C23: 'start', 'progress' and 'fallback' events change only progress: a
\* read step whose events are all of these types leaves status, error and
\* result exactly as they were.
C23_ProgressEventsChangeOnlyProgress ==
    [][\A chunk \in BodyChunks(sent[1]) :
          LET types == EventTypes(CompleteLines(reqs[1].buffer
                                                  \o Decode(reqs[1].pending, chunk).text))
          IN  (/\ ReadChunk(1, chunk)
               /\ types # {}
               /\ types \subseteq {"start", "progress", "fallback"})
                  => UNCHANGED <<status, error, result>>]_vars

\* C23 witness: a 'fallback' event came after 'complete': the progress is
\* the fallback marker, status is still 'complete' and the result is kept.
C23_Witness ==
    /\ sent[1] = EventLine("{complete") \o <<NL>> \o EventLine("{fallback") \o <<NL>>
    /\ status = "complete"
    /\ error = Undefined
    /\ result # Null
    /\ progress # Null

\* C24: a read step whose last event is 'start' leaves progress exactly
\* {step 0, total 100, percent 0}, one whose last event is 'fallback'
\* exactly {step 1, total 3, percent 33, message 'Using Lanczos
\* fallback...'}, whatever fields the event carries and whatever the
\* progress was: no preview or other field is carried over.
C24_FixedMarkers ==
    [][\A chunk \in BodyChunks(sent[1]) :
          LET e == LastEvent(CompleteLines(reqs[1].buffer
                                             \o Decode(reqs[1].pending, chunk).text))
          IN  (ReadChunk(1, chunk) /\ reqs'[1].pc = "read" /\ e # Null)
                  => /\ e[1].type = "start"
                          => progress' = Some([step |-> 0, total |-> 100, percent |-> 0,
                                               preview |-> Undefined,
                                               message |-> Undefined])
                     /\ e[1].type = "fallback"
                          => progress' = Some([step |-> 1, total |-> 3, percent |-> 33,
                                               preview |-> Undefined,
                                               message |-> "Using Lanczos fallback..."])]_vars

\* C24 witness: a 'fallback' event that carries a preview and its own step
\* came after a 'progress' event with a preview: the progress is the fixed
\* marker, without a preview.
C24_Witness ==
    /\ sent[1] = EventLine("{progressA") \o <<NL>> \o EventLine("{fallback") \o <<NL>>
    /\ progress = Some([step |-> 1, total |-> 3, percent |-> 33,
                        preview |-> Undefined,
                        message |-> "Using Lanczos fallback..."])

\* C25: in every reachable state, status 'processing' implies that result
\* is null and error is unset.
C25_ProcessingHasNoOutcome ==
    status = "processing" => (result = Null /\ error = Undefined)

\* C25 witness: the first request has ended, the second is processing and
\* has shown progress; no error and no result are exposed.
C25_Witness ==
    /\ status = "processing"
    /\ nextReq = 3
    /\ reqs[1].pc = "done"
    /\ reqs[2].pc = "read" /\ ~reqs[2].aborted
    /\ progress # Null
    /\ result = Null /\ error = Undefined

\* C26: in every reachable state, status 'idle' implies progress is null.
C26_IdleHasNoProgress ==
    status = "idle" => progress = Null

\* C27: in every reachable state, result and error are not both set.
C27_ResultAndErrorExclusive ==
    ~(result # Null /\ error # Undefined)

\* C28: in every reachable state, status 'complete' implies result is
\* non-null.
C28_CompleteHasResult ==
    status = "complete" => result # Null

\* C28 witness: the only request delivered 'complete' and its stream has
\* closed: status 'complete' with the result.
C28_Witness ==
    /\ status = "complete"
    /\ result # Null
    /\ nextReq = 2 /\ reqs[1].pc = "done"

\* C29: when the stream closes with a last line that no newline ended, that
\* line is discarded: the close changes none of status, error, progress and
\* result, and what they hold is what the newline-terminated lines gave, so
\* an event in the unterminated tail ('complete' and 'error' included) has
\* no effect.
C29_UnterminatedTailDiscarded ==
    [][(StreamEnd /\ reqs[1].buffer # <<>>)
          => /\ UNCHANGED <<status, error, progress, result>>
             /\ [status |-> status', error |-> error', progress |-> progress',
                 result |-> result']
                  = Exposed(ProcessLines(CompleteLines(Decode(<<>>, sent[1]).text),
                                         FreshSession))]_vars

\* C29 witness: the stream closed after 'start' and a whole 'complete'
\* event that no newline followed: the request has ended, status is still
\* 'processing', and there is no result.
C29_Witness ==
    /\ reqs[1].pc = "done"
    /\ sent[1] = EventLine("{start") \o <<NL>> \o EventLine("{complete")
    /\ status = "processing"
    /\ result = Null
    /\ progress = Some([step |-> 0, total |-> 100, percent |-> 0,
                        preview |-> Undefined, message |-> Undefined])

\* C30: in the page, upscale() is invoked only with a selected image, only
\* when status is not 'processing', and never while a request of the
\* controller is still in flight.
C30_PageNeverOverlapsRequests ==
    [][Upscale => /\ image.selected
                  /\ ~isProcessing
                  /\ \A r \in ReqIds : ~InFlight(r)]_vars

====
